---- MODULE Spec2Model ----
(***************************************************************************)
(* Fitness & Macro Tracker (src/src/App.tsx, src/main.tsx).                *)
(*                                                                         *)
(* The App component as a state machine: the React state (state,           *)
(* activeIdx, deleteConfirmIdx), the localStorage slot, the FileReaders in *)
(* flight, the mount effects, and one action per event handler.  Every     *)
(* handler that calls setState is followed by the save effect, which is    *)
(* part of the handler's action.                                           *)
(*                                                                         *)
(* Array indices are 0-based as in the source; a TLA+ sequence s holds the *)
(* JavaScript element i at s[i + 1].                                       *)
(***************************************************************************)
EXTENDS Integers, Sequences, FiniteSets, TLC

VARIABLES
    state,              \* useState(defaultState): [targets, days]
    activeIdx,          \* useState(0)
    deleteConfirmIdx,   \* useState(null); null is NoIdx
    slot,               \* localStorage[STORAGE_KEY], a text
    readers,            \* the FileReaders whose readAsText has not completed
    queue,              \* setState calls of the mount effects, applied by the next render
    pc,                 \* position in the mount sequence, "ready" once mounted
    today,              \* the date todayISO() returns
    alerted,            \* the last handler called alert()
    saveError,          \* the last step's save effect threw and logged the error
    budget,             \* budgeted events still to come (see MaxEvents)
    ev,                 \* the last handler that ran and its arguments: <<name, a, b>>
    macroOut            \* the result of a direct call of computeMacros

vars == <<state, activeIdx, deleteConfirmIdx, slot, readers, queue, pc, today,
          alerted, saveError, budget, ev, macroOut>>

-----------------------------------------------------------------------------
(* Bounds of the model *)

\* The events of one behaviour that are counted: form edits, New Day clicks,
\* file selections and throwing localStorage writes.  Selecting, arming,
\* cancelling and confirming, the mount steps and the file loads are free.
MaxEvents == 2

-----------------------------------------------------------------------------
(* JavaScript values *)

\* A scalar a numeric form field or a JSON document can hold.
Num(n) == [t |-> "num", n |-> n]
EmptyStr == [t |-> "str", n |-> 0]
NaN == [t |-> "nan", n |-> 0]
Null == [t |-> "null", n |-> 0]
Undef == [t |-> "undef", n |-> 0]

\* null for deleteConfirmIdx
NoIdx == -1

\* the empty date string ''
NoDate == 0

\* {} ; also what spreading undefined gives
EmptyObj == [k \in {} |-> 0]

\* o.k for a scalar-valued key: undefined when the key is absent
Get(o, k) == IF k \in DOMAIN o THEN o[k] ELSE Undef

\* { ...a, ...b }
Spread(a, b) ==
    [k \in DOMAIN a \cup DOMAIN b |-> IF k \in DOMAIN b THEN b[k] ELSE a[k]]

\* x || 0 on a number
OrZero(x) == IF x.t = "num" /\ x.n # 0 THEN x ELSE Num(0)

\* v ?? ''
OrEmpty(v) == IF v = Null \/ v = Undef THEN EmptyStr ELSE v

Min2(a, b) == IF a < b THEN a ELSE b
Max2(a, b) == IF a > b THEN a ELSE b

\* clamp(n, min, max) on a number
clamp(x, lo, hi) == Num(Max2(lo, Min2(hi, x.n)))

\* arr[i], as read by a spread: {} past the end
ArrayGet(arr, i) == IF i >= 0 /\ i < Len(arr) THEN arr[i + 1] ELSE EmptyObj

\* copy = [...arr]; copy[i] = v : writing past the end leaves holes
ArraySet(arr, i, v) ==
    IF i < Len(arr)
    THEN [arr EXCEPT ![i + 1] = v]
    ELSE arr \o [j \in 1..(i - Len(arr)) |-> EmptyObj] \o <<v>>

\* arr.filter((_, i) => i !== idx)
FilterOut(arr, idx) ==
    LET keep(j) == IF j <= idx THEN j ELSE j + 1
        n == IF idx >= 0 /\ idx < Len(arr) THEN Len(arr) - 1 ELSE Len(arr)
    IN [j \in 1..n |-> arr[keep(j)]]

-----------------------------------------------------------------------------
(* Helpers and defaults *)

todayISO == today

defaultTargets ==
    [calories |-> 1800, protein |-> 130, carbs |-> 160, fat |-> 60,
     goalWeight |-> 150]

emptyDay(dateStr) ==
    [date |-> IF dateStr # NoDate THEN dateStr ELSE todayISO,
     calories |-> EmptyStr, protein |-> EmptyStr, carbs |-> EmptyStr,
     fat |-> EmptyStr, exercises |-> <<>>]

\* evaluated once, when the module is loaded
defaultState == [targets |-> defaultTargets, days |-> <<emptyDay(todayISO)>>]

\* the value computeMacros returns for missing inputs
NoMacros == [null |-> TRUE]

\* Math.round(num / den) for den > 0: floor(num/den + 1/2)
Round(num, den) == (2 * num + den) \div (2 * den)

computeMacrosNullOnBoth(goalWeight, calories) ==
    IF goalWeight = 0 /\ calories = 0 THEN NoMacros
    ELSE [calories |-> calories, protein |-> goalWeight,
          fat |-> Round(calories, 36),
          carbs |-> Max2(0, Round(3 * calories - 16 * goalWeight, 16))]

computeMacrosNoClamp(goalWeight, calories) ==
    IF goalWeight = 0 \/ calories = 0 THEN NoMacros
    ELSE [calories |-> calories, protein |-> goalWeight,
          fat |-> Round(calories, 36),
          carbs |-> Round(3 * calories - 16 * goalWeight, 16)]

\* fatGrams = calories * 0.25 / 9 = calories / 36
\* carbGrams = (calories - (4 goalWeight + 0.25 calories)) / 4
\*           = (3 calories - 16 goalWeight) / 16
computeMacros(goalWeight, calories) ==
    IF goalWeight = 0 \/ calories = 0 THEN NoMacros
    ELSE [calories |-> calories, protein |-> goalWeight,
          fat |-> Round(calories, 36),
          carbs |-> Max2(0, Round(3 * calories - 16 * goalWeight, 16))]

-----------------------------------------------------------------------------
(* JSON texts *)

\* A text is unreadable ("bad"), absent ("none": getItem gave null) or the
\* serialisation of a document.
NoText == [kind |-> "none", doc |-> EmptyObj]
BadText == [kind |-> "bad", doc |-> EmptyObj]
TextOf(doc) == [kind |-> "json", doc |-> doc]

ScalarKeys == {"calories", "protein", "carbs", "fat"}
ExScalarKeys == {"weight", "sets", "reps", "duration"}

\* JSON.stringify of a number or string: NaN becomes null
JsonScalar(v) == IF v = NaN THEN Null ELSE v

\* JSON.stringify of an object drops the keys whose value is undefined
JsonKeys(o, scalarKeys) ==
    {k \in DOMAIN o : ~(k \in scalarKeys /\ o[k] = Undef)}

JsonExercise(e) ==
    [k \in JsonKeys(e, ExScalarKeys) |->
        IF k \in ExScalarKeys THEN JsonScalar(e[k]) ELSE e[k]]

JsonDay(d) ==
    [k \in JsonKeys(d, ScalarKeys) |->
        IF k \in ScalarKeys THEN JsonScalar(d[k])
        ELSE IF k = "exercises"
             THEN [i \in 1..Len(d[k]) |-> JsonExercise(d[k][i])]
             ELSE d[k]]

\* JSON.stringify(state): a hole of the days array is written as null, which
\* parses back as a day with no keys that can be read
stringify(s) ==
    TextOf([targets |-> s.targets,
            days |-> [i \in 1..Len(s.days) |-> JsonDay(s.days[i])]])

\* parsed?.days?.length
DaysLength(parsed) ==
    IF "days" \in DOMAIN parsed THEN Len(parsed.days) ELSE 0

\* { ...defaultTargets, ...(parsed.targets || {}) }
MergedTargets(parsed) ==
    Spread(defaultTargets,
           IF "targets" \in DOMAIN parsed THEN parsed.targets ELSE EmptyObj)

\* the day objects the load effect builds from the parsed ones
LoadedDay(d) ==
    [date |-> IF "date" \in DOMAIN d /\ d.date # NoDate THEN d.date ELSE todayISO,
     calories |-> OrEmpty(Get(d, "calories")),
     protein |-> OrEmpty(Get(d, "protein")),
     carbs |-> OrEmpty(Get(d, "carbs")),
     fat |-> OrEmpty(Get(d, "fat")),
     exercises |-> IF "exercises" \in DOMAIN d THEN d.exercises ELSE <<>>]

LoadedState(parsed) ==
    [targets |-> MergedTargets(parsed),
     days |-> [i \in 1..Len(parsed.days) |-> LoadedDay(parsed.days[i])]]

\* the state importJSON sets
ImportedState(parsed) ==
    [targets |-> MergedTargets(parsed), days |-> parsed.days]

-----------------------------------------------------------------------------
(* Exercise catalog *)

\* An object literal as the sequence of its <<key, value>> pairs, in
\* insertion order (the order Object.keys gives).
EXERCISE_TREE ==
    << <<"Cardio",
         << <<"LISS", << <<"-", <<"Treadmill", "Stair Master", "Elliptical">> >> >> >>,
            <<"HIIT", << <<"-", <<"Treadmill", "Stair Master", "Elliptical">> >> >> >> >> >>,
       <<"Strength",
         << <<"Pull",
              << <<"Back", <<"Seated low row", "Lat pulldown (wide grip)",
                              "Lat pulldown (short grip)", "Bent over row">> >>,
                 <<"Bicep", <<"EZ bar curl", "Dumbbell hammer curl",
                               "Cable rope curl">> >> >> >>,
            <<"Push",
              << <<"Chest", <<"Flat bench press", "Incline bench press",
                               "Cable chest fly">> >>,
                 <<"Shoulders", <<"Barbell or dumbbell shoulder press",
                                   "Lateral raise",
                                   "Front raise / Side raise / Around-the-world (alternate weekly)">> >>,
                 <<"Triceps", <<"Cable triceps pushdown", "Bar triceps pushdown",
                                 "Overhead cable triceps extension">> >> >> >>,
            <<"Legs",
              << <<"Legs + Glutes + Calves",
                   <<"Dumbbell squat (shoulder hold)", "Sumo squat (front hold)",
                     "Romanian deadlift",
                     "Curtsy lunge / Side lunge (alternate weekly)",
                     "Standing calf raise", "Seated calf raise">> >> >> >> >> >> >>

\* Object.keys(obj)
ObjectKeys(obj) == [i \in 1..Len(obj) |-> obj[i][1]]

\* key is an own property of obj (every own value of the tree is truthy)
HasKey(obj, key) == \E i \in 1..Len(obj) : obj[i][1] = key

\* obj[key], for an own key of obj
At(obj, key) == obj[CHOOSE i \in 1..Len(obj) : obj[i][1] = key][2]

\* Two of the members every object literal, and every function, inherits
\* from Object.prototype: obj[key] is then a built-in function, which is
\* truthy, has no enumerable own keys and is not an array.
InheritedKeys == {"constructor", "toString"}

\* a built-in function where a lookup puts an array: written as the tuple
\* of its source text
NativeFunction == <<"function () { [native code] }">>

\* EXERCISE_TREE[cat] is an own entry, or an inherited function whose
\* Object.keys is [], or undefined
getTypes(cat) ==
    IF cat # "" /\ HasKey(EXERCISE_TREE, cat)
    THEN ObjectKeys(At(EXERCISE_TREE, cat))
    ELSE <<>>

\* EXERCISE_TREE[cat]?.[type] likewise
getGroups(cat, type) ==
    IF cat # "" /\ type # "" /\ HasKey(EXERCISE_TREE, cat)
       /\ HasKey(At(EXERCISE_TREE, cat), type)
    THEN ObjectKeys(At(At(EXERCISE_TREE, cat), type))
    ELSE <<>>

\* EXERCISE_TREE[cat]?.[type]?.[group] is returned as it is when truthy: an
\* own array, or the function found where the path leaves the own keys by
\* an inherited key and goes on by inherited keys
getExercises(cat, type, group) ==
    IF cat = "" \/ type = "" \/ group = "" THEN <<>>
    ELSE IF HasKey(EXERCISE_TREE, cat)
    THEN IF HasKey(At(EXERCISE_TREE, cat), type)
         THEN IF HasKey(At(At(EXERCISE_TREE, cat), type), group)
              THEN At(At(At(EXERCISE_TREE, cat), type), group)
              ELSE IF group \in InheritedKeys THEN NativeFunction ELSE <<>>
         ELSE IF type \in InheritedKeys /\ group \in InheritedKeys
              THEN NativeFunction ELSE <<>>
    ELSE IF cat \in InheritedKeys /\ type \in InheritedKeys
            /\ group \in InheritedKeys
         THEN NativeFunction ELSE <<>>

\* the elements of a sequence
Elems(sq) == {sq[i] : i \in 1..Len(sq)}

-----------------------------------------------------------------------------
(* Files and stored texts the environment offers *)

ExBicep ==
    [category |-> "Strength", type |-> "Pull", group |-> "Bicep",
     name |-> "EZ bar curl", weight |-> Num(20), sets |-> EmptyStr,
     reps |-> EmptyStr, duration |-> Num(5)]

ExChest ==
    [category |-> "Strength", type |-> "Push", group |-> "Chest", name |-> "",
     weight |-> EmptyStr, sets |-> Num(3), reps |-> EmptyStr,
     duration |-> EmptyStr]

ExCardio ==
    [category |-> "Cardio", type |-> "LISS", group |-> "-",
     name |-> "Treadmill", weight |-> EmptyStr, sets |-> EmptyStr,
     reps |-> EmptyStr, duration |-> Num(30)]

\* partial targets; a day with a null field and without carbs, fat, exercises
DocA ==
    [targets |-> [calories |-> 2000, goalWeight |-> 180],
     days |-> << [date |-> 3, calories |-> Num(7), protein |-> Null] >>]

\* partial targets; two complete days with exercises
DocB ==
    [targets |-> [calories |-> 2200, protein |-> 140],
     days |-> << [date |-> 4, calories |-> Num(500), protein |-> Num(50),
                  carbs |-> Num(50), fat |-> Num(11),
                  exercises |-> <<ExCardio, ExBicep, ExChest>>],
                 [date |-> 5, calories |-> EmptyStr, protein |-> EmptyStr,
                  carbs |-> EmptyStr, fat |-> EmptyStr,
                  exercises |-> <<ExCardio>>] >>]

\* a document whose days sequence is empty
DocNoDays == [days |-> <<>>]

\* what the slot may hold when the page is opened
StoredTexts == {NoText, BadText, TextOf(DocA)}

\* a document without days
DocNoKey == [targets |-> [calories |-> 2000]]

\* the files the user may pick in the import dialog
ImportFiles == <<BadText, TextOf(DocNoKey), TextOf(DocNoDays), TextOf(DocB)>>

\* Number(e.target.value) for what can be typed into a numeric input
NumberInputs == {NaN, Num(-5), Num(7), Num(200000)}

\* the inputs made in the full application: two numbers, two of the day
\* fields (calories has a bound of its own; protein, carbs and fat share
\* theirs), and in each select one or two of its options
TypedNumbers == {NaN, Num(7)}
TypedDates == {2}
TypedFields == {"calories", "fat"}
TypedExFields == {"sets", "duration"}
TypedCategories == {"", "Cardio"}
TypedTypes == {"HIIT", "Push"}
TypedGroups == {"Back"}
TypedNames == {"__ALL__", "Dumbbell hammer curl"}

\* e.target.value of the date input
DateInputs == {NoDate, 2}

-----------------------------------------------------------------------------
(* State after construction *)

Init ==
    /\ today = 1
    /\ state = defaultState
    /\ activeIdx = 0
    /\ deleteConfirmIdx = NoIdx
    /\ slot \in StoredTexts
    /\ readers = {}
    /\ queue = <<>>
    /\ pc = "load"
    /\ alerted = FALSE
    /\ saveError = FALSE
    /\ budget = MaxEvents
    /\ ev = <<"init", 0, 0>>
    /\ macroOut = NoMacros

-----------------------------------------------------------------------------
(* The save effect, run after every render in which state changed *)

SaveEffectStale(s, cost) ==
    /\ budget >= cost
    /\ \/ slot' = stringify(state) /\ budget' = budget - cost /\ saveError' = FALSE
       \/ /\ budget > cost
          /\ slot' = slot
          /\ budget' = budget - cost - 1
          /\ saveError' = TRUE

\* localStorage.setItem(STORAGE_KEY, JSON.stringify(state)); a throwing
\* setItem leaves the item as it was and the error is logged.  cost is what
\* the handler itself takes from the budget.
SaveEffect(s, cost) ==
    /\ budget >= cost
    /\ \/ slot' = stringify(s) /\ budget' = budget - cost /\ saveError' = FALSE
       \/ /\ budget > cost
          /\ slot' = slot
          /\ budget' = budget - cost - 1
          /\ saveError' = TRUE

\* no render with a changed state follows: the save effect does not run
NoSave == slot' = slot /\ saveError' = FALSE

\* setState(s) in an event handler: the render and its save effect.  Every
\* reader still in flight has now seen the state change since it started.
SetState(s, cost) ==
    /\ state' = s
    /\ SaveEffect(s, cost)
    /\ readers' = {[r EXCEPT !.stale = TRUE] : r \in readers}

\* a handler ran
Handled(name, a, b) == ev' = <<name, a, b>> /\ alerted' = FALSE

-----------------------------------------------------------------------------
(* Mount: the load effect, the save effect, and under React.StrictMode in a *)
(* development build both once more; then the render of what was queued     *)

\* useEffect(() => { ...getItem...setState... }, [])
LoadEffect ==
    /\ pc \in {"load", "load2"}
    /\ queue' = IF slot.kind = "json" /\ DaysLength(slot.doc) > 0
                THEN Append(queue, LoadedState(slot.doc))
                ELSE queue
    /\ pc' = IF pc = "load" THEN "save" ELSE "save2"
    /\ Handled("loadEffect", 0, 0)
    /\ NoSave
    /\ UNCHANGED <<state, activeIdx, deleteConfirmIdx, readers, today, budget,
                   macroOut>>

\* useEffect(() => { ...setItem... }, [state]) on mount: state is still the
\* default one.  A development build goes on to run both effects again.
MountSaveEffect ==
    /\ pc \in {"save", "save2"}
    /\ SaveEffect(state, 0)
    /\ pc' \in IF pc = "save" THEN {"load2", "render"} ELSE {"render"}
    /\ Handled("saveEffect", 0, 0)
    /\ UNCHANGED <<state, activeIdx, deleteConfirmIdx, readers, queue, today,
                   macroOut>>

\* the render after the mount effects: the last queued setState wins, and
\* the save effect runs when state changed
MountRender ==
    /\ pc = "render"
    /\ pc' = "ready"
    /\ queue' = <<>>
    /\ IF queue # <<>>
       THEN /\ SetState(queue[Len(queue)], 0)
            /\ activeIdx' = 0
       ELSE NoSave /\ UNCHANGED <<state, activeIdx, budget, readers>>
    /\ Handled("render", 0, 0)
    /\ UNCHANGED <<deleteConfirmIdx, today, macroOut>>

-----------------------------------------------------------------------------
(* The days list *)

Rows == 0..(Len(state.days) - 1)

\* <li onClick={() => setActiveIdx(i)}>
SelectDay(i) ==
    /\ pc = "ready"
    /\ i \in Rows
    /\ activeIdx' = i
    /\ Handled("selectDay", 0, 0)
    /\ NoSave
    /\ UNCHANGED <<state, deleteConfirmIdx, readers, queue, pc, today, budget,
                   macroOut>>

ArmDeleteBubbles(i) ==
    /\ pc = "ready"
    /\ i \in Rows
    /\ deleteConfirmIdx # i
    /\ deleteConfirmIdx' = i
    /\ activeIdx' = i
    /\ Handled("trash", i, 0)
    /\ NoSave
    /\ UNCHANGED <<state, readers, queue, pc, today, budget, macroOut>>

\* the trash button of row i, shown while deleteConfirmIdx !== i; the click
\* does not reach the row (stopPropagation)
ArmDelete(i) ==
    /\ pc = "ready"
    /\ i \in Rows
    /\ deleteConfirmIdx # i
    /\ deleteConfirmIdx' = i
    /\ Handled("trash", i, 0)
    /\ NoSave
    /\ UNCHANGED <<state, activeIdx, readers, queue, pc, today, budget,
                   macroOut>>

\* the Cancel button of row i, shown while deleteConfirmIdx === i
CancelDelete(i) ==
    /\ pc = "ready"
    /\ i \in Rows
    /\ deleteConfirmIdx = i
    /\ deleteConfirmIdx' = NoIdx
    /\ Handled("cancel", 0, 0)
    /\ NoSave
    /\ UNCHANGED <<state, activeIdx, readers, queue, pc, today, budget,
                   macroOut>>

deleteDayNoSubstitute(idx) ==
    /\ SetState([state EXCEPT !.days = FilterOut(state.days, idx)], 0)
    /\ activeIdx' = Max2(0, activeIdx - 1)
    /\ deleteConfirmIdx' = NoIdx

deleteDayKeepActive(idx) ==
    /\ LET days == FilterOut(state.days, idx)
       IN SetState([state EXCEPT !.days = IF Len(days) > 0 THEN days
                                          ELSE <<emptyDay(todayISO)>>], 0)
    /\ activeIdx' = activeIdx
    /\ deleteConfirmIdx' = NoIdx

deleteDay(idx) ==
    /\ LET days == FilterOut(state.days, idx)
       IN SetState([state EXCEPT !.days = IF Len(days) > 0 THEN days
                                          ELSE <<emptyDay(todayISO)>>], 0)
    /\ activeIdx' = Max2(0, activeIdx - 1)
    /\ deleteConfirmIdx' = NoIdx

\* the Confirm button of row i, shown while deleteConfirmIdx === i
ConfirmDelete(i) ==
    /\ pc = "ready"
    /\ i \in Rows
    /\ deleteConfirmIdx = i
    /\ deleteDay(i)
    /\ Handled("confirm", i, Len(state.days))
    /\ UNCHANGED <<queue, pc, today, macroOut>>

addNewDay ==
    /\ pc = "ready"
    /\ SetState([state EXCEPT !.days = <<emptyDay(todayISO)>> \o state.days], 1)
    /\ activeIdx' = 0
    /\ Handled("addNewDay", 0, 0)
    /\ UNCHANGED <<deleteConfirmIdx, queue, pc, today, macroOut>>

-----------------------------------------------------------------------------
(* The active day editor *)

\* state.days[activeIdx] || emptyDay(todayISO())
activeDay ==
    IF activeIdx >= 0 /\ activeIdx < Len(state.days)
    THEN state.days[activeIdx + 1]
    ELSE emptyDay(todayISO)

\* the state setActiveDay(partial) sets
setActiveDay(partial) ==
    [state EXCEPT !.days =
        ArraySet(state.days, activeIdx,
                 Spread(ArrayGet(state.days, activeIdx), partial))]

\* the date input
SetDate(v) ==
    /\ pc = "ready"
    /\ SetState(setActiveDay([date |-> v]), 1)
    /\ Handled("setDate", 0, 0)
    /\ UNCHANGED <<activeIdx, deleteConfirmIdx, queue, pc, today, macroOut>>

\* the upper bound the input of a day field clamps to
FieldMax(k) == IF k = "calories" THEN 100000 ELSE 10000

SetFieldNoCoerce(k, x) ==
    /\ pc = "ready"
    /\ SetState(setActiveDay([f \in {k} |->
                    IF x = NaN THEN NaN ELSE clamp(x, 0, FieldMax(k))]), 1)
    /\ Handled("setField", 0, 0)
    /\ UNCHANGED <<activeIdx, deleteConfirmIdx, queue, pc, today, macroOut>>

\* the calories, protein, carbs and fat inputs; x is Number(e.target.value)
SetField(k, x) ==
    /\ pc = "ready"
    /\ SetState(setActiveDay([f \in {k} |-> clamp(OrZero(x), 0, FieldMax(k))]), 1)
    /\ Handled("setField", 0, 0)
    /\ UNCHANGED <<activeIdx, deleteConfirmIdx, queue, pc, today, macroOut>>

-----------------------------------------------------------------------------
(* Daily targets *)

\* the state recalcMacros(goalWeight, calories) sets, or no change
recalcMacros(goalWeight, calories) ==
    LET m == computeMacros(goalWeight, calories)
    IN IF m = NoMacros
       THEN /\ budget > 0
            /\ budget' = budget - 1
            /\ NoSave
            /\ UNCHANGED <<state, readers>>
       ELSE SetState([state EXCEPT !.targets =
                Spread(Spread(state.targets, m), [goalWeight |-> goalWeight])], 1)

\* the Goal Weight input
GoalWeightInput(x) ==
    /\ pc = "ready"
    /\ recalcMacros(OrZero(x).n, state.targets.calories)
    /\ Handled("goalWeight", OrZero(x).n, state.targets.calories)
    /\ UNCHANGED <<activeIdx, deleteConfirmIdx, queue, pc, today, macroOut>>

\* the Target Calories input
TargetCaloriesInput(x) ==
    /\ pc = "ready"
    /\ recalcMacros(state.targets.goalWeight, OrZero(x).n)
    /\ Handled("targetCalories", state.targets.goalWeight, OrZero(x).n)
    /\ UNCHANGED <<activeIdx, deleteConfirmIdx, queue, pc, today, macroOut>>

-----------------------------------------------------------------------------
(* JSON import *)

\* importJSON(e) with file k chosen: reader.readAsText(file) starts.
\* Readers of the same file that have seen the same are one element of
\* readers: their onload handlers do the same.
importJSON(k) ==
    /\ pc = "ready"
    /\ k \in 1..Len(ImportFiles)
    /\ [file |-> k, stale |-> FALSE] \notin readers
    /\ readers' = readers \cup {[file |-> k, stale |-> FALSE]}
    /\ budget > 0
    /\ budget' = budget - 1
    /\ Handled("importJSON", 0, 0)
    /\ NoSave
    /\ UNCHANGED <<state, activeIdx, deleteConfirmIdx, queue, pc, today,
                   macroOut>>

ReaderOnLoadKeepTargets(r) ==
    /\ pc = "ready"
    /\ r \in readers
    /\ LET text == ImportFiles[r.file]
           rest == readers \ {r}
       IN IF text.kind # "json"
          THEN /\ alerted' = TRUE
               /\ NoSave
               /\ readers' = rest
               /\ UNCHANGED <<state, activeIdx, budget>>
          ELSE /\ alerted' = FALSE
               /\ IF DaysLength(text.doc) > 0
                  THEN /\ state' = [state EXCEPT !.days = text.doc.days]
                       /\ SaveEffect(state', 0)
                       /\ readers' = {[q EXCEPT !.stale = TRUE] : q \in rest}
                       /\ activeIdx' = 0
                  ELSE /\ NoSave
                       /\ readers' = rest
                       /\ UNCHANGED <<state, activeIdx, budget>>
    /\ ev' = <<"onload", r.file, IF r.stale THEN 1 ELSE 0>>
    /\ UNCHANGED <<deleteConfirmIdx, queue, pc, today, macroOut>>

\* reader.onload of reader r; String(reader.result) is the text of its file
ReaderOnLoad(r) ==
    /\ pc = "ready"
    /\ r \in readers
    /\ LET text == ImportFiles[r.file]
           rest == readers \ {r}
       IN IF text.kind # "json"
          THEN /\ alerted' = TRUE
               /\ NoSave
               /\ readers' = rest
               /\ UNCHANGED <<state, activeIdx, budget>>
          ELSE /\ alerted' = FALSE
               /\ IF DaysLength(text.doc) > 0
                  THEN /\ state' = ImportedState(text.doc)
                       /\ SaveEffect(state', 0)
                       /\ readers' = {[q EXCEPT !.stale = TRUE] : q \in rest}
                       /\ activeIdx' = 0
                  ELSE /\ NoSave
                       /\ readers' = rest
                       /\ UNCHANGED <<state, activeIdx, budget>>
    /\ ev' = <<"onload", r.file, IF r.stale THEN 1 ELSE 0>>
    /\ UNCHANGED <<deleteConfirmIdx, queue, pc, today, macroOut>>

-----------------------------------------------------------------------------
(* Exercises of the active day *)

\* d.exercises || []
Exercises(d) == IF "exercises" \in DOMAIN d THEN d.exercises ELSE <<>>

ExRows == 0..(Len(Exercises(activeDay)) - 1)

\* the entry addExercise appends
newExercise ==
    [category |-> "", type |-> "", group |-> "", name |-> "",
     weight |-> EmptyStr, sets |-> EmptyStr, reps |-> EmptyStr,
     duration |-> EmptyStr]

\* the state the three exercise setters build: the active day with its
\* exercises replaced
WithExercises(exs) ==
    [state EXCEPT !.days =
        ArraySet(state.days, activeIdx,
                 Spread(ArrayGet(state.days, activeIdx), [exercises |-> exs]))]

updateExercise(exIdx, partial) ==
    LET exs == Exercises(ArrayGet(state.days, activeIdx))
    IN WithExercises(ArraySet(exs, exIdx, Spread(ArrayGet(exs, exIdx), partial)))

removeExercise(exIdx) ==
    WithExercises(FilterOut(Exercises(ArrayGet(state.days, activeIdx)), exIdx))

replaceExerciseWithAllAtEnd(exIdx, cat, type, group, names) ==
    LET exs == Exercises(ArrayGet(state.days, activeIdx))
        rows == [n \in 1..Len(names) |->
                    [category |-> cat, type |-> type, group |-> group,
                     name |-> names[n], weight |-> EmptyStr, sets |-> EmptyStr,
                     reps |-> EmptyStr, duration |-> EmptyStr]]
    IN WithExercises(FilterOut(exs, exIdx) \o rows)

\* exs.splice(exIdx, 1, ...names.map(...))
replaceExerciseWithAll(exIdx, cat, type, group, names) ==
    LET exs == Exercises(ArrayGet(state.days, activeIdx))
        rows == [n \in 1..Len(names) |->
                    [category |-> cat, type |-> type, group |-> group,
                     name |-> names[n], weight |-> EmptyStr, sets |-> EmptyStr,
                     reps |-> EmptyStr, duration |-> EmptyStr]]
    IN WithExercises(SubSeq(exs, 1, Min2(exIdx, Len(exs))) \o rows
                     \o SubSeq(exs, exIdx + 2, Len(exs)))

\* an exercise handler on row i: the edit, the new state and its save
ExerciseEdit(name, i, s) ==
    /\ pc = "ready"
    /\ SetState(s, 1)
    /\ Handled(name, i, 0)
    /\ UNCHANGED <<activeIdx, deleteConfirmIdx, queue, pc, today, macroOut>>

\* the Add Exercise button
addExercise ==
    ExerciseEdit("addExercise", 0,
        setActiveDay([exercises |-> Append(Exercises(activeDay), newExercise)]))

\* the Remove button of exercise row i
RemoveExercise(i) ==
    /\ i \in ExRows
    /\ ExerciseEdit("removeExercise", i, removeExercise(i))

SelectCategoryKeepNumbers(i, newCat) ==
    /\ i \in ExRows
    /\ newCat \in {""} \cup Elems(ObjectKeys(EXERCISE_TREE))
    /\ newCat # Exercises(activeDay)[i + 1].category
    /\ ExerciseEdit("category", i,
         IF newCat = "Cardio"
         THEN updateExercise(i, [category |-> newCat, type |-> "", group |-> "-",
                                 name |-> ""])
         ELSE updateExercise(i, [category |-> newCat, type |-> "", group |-> "",
                                 name |-> ""]))

\* the Category select of row i
SelectCategory(i, newCat) ==
    /\ i \in ExRows
    /\ newCat \in {""} \cup Elems(ObjectKeys(EXERCISE_TREE))
    /\ newCat # Exercises(activeDay)[i + 1].category
    /\ ExerciseEdit("category", i,
         IF newCat = "Cardio"
         THEN updateExercise(i, [category |-> newCat, type |-> "", group |-> "-",
                                 name |-> "", weight |-> EmptyStr,
                                 sets |-> EmptyStr, reps |-> EmptyStr])
         ELSE updateExercise(i, [category |-> newCat, type |-> "", group |-> "",
                                 name |-> ""]))

\* the Workout Type select of row i, disabled while there are no types
SelectType(i, v) ==
    /\ i \in ExRows
    /\ LET ex == Exercises(activeDay)[i + 1]
           types == getTypes(ex.category)
       IN /\ Len(types) > 0
          /\ v \in {""} \cup Elems(types)
          /\ v # ex.type
          /\ ExerciseEdit("type", i,
               IF ex.category = "Cardio"
               THEN updateExercise(i, [type |-> v, group |-> "-", name |-> ""])
               ELSE updateExercise(i, [type |-> v, group |-> "", name |-> ""]))

SelectGroupKeepName(i, v) ==
    /\ i \in ExRows
    /\ LET ex == Exercises(activeDay)[i + 1]
           groups == getGroups(ex.category, ex.type)
       IN /\ ex.category # "Cardio"
          /\ Len(groups) > 0
          /\ v \in {""} \cup Elems(groups)
          /\ v # ex.group
          /\ ExerciseEdit("group", i, updateExercise(i, [group |-> v]))

\* the Muscle Group select of row i, disabled for Cardio and while there
\* are no groups
SelectGroup(i, v) ==
    /\ i \in ExRows
    /\ LET ex == Exercises(activeDay)[i + 1]
           groups == getGroups(ex.category, ex.type)
       IN /\ ex.category # "Cardio"
          /\ Len(groups) > 0
          /\ v \in {""} \cup Elems(groups)
          /\ v # ex.group
          /\ ExerciseEdit("group", i, updateExercise(i, [group |-> v, name |-> ""]))

\* the Exercise select of row i, disabled while there are no names; the
\* option __ALL__ is offered when a type and a group are chosen and there
\* is more than one name
SelectName(i, v) ==
    /\ i \in ExRows
    /\ LET ex == Exercises(activeDay)[i + 1]
           isCardio == ex.category = "Cardio"
           names == getExercises(ex.category, ex.type, ex.group)
           all == IF ex.type # "" /\ (isCardio \/ ex.group # "") /\ Len(names) > 1
                  THEN {"__ALL__"} ELSE {}
       IN /\ Len(names) > 0
          /\ v \in {""} \cup all \cup Elems(names)
          /\ v # ex.name
          /\ ExerciseEdit(IF v = "__ALL__" THEN "nameAll" ELSE "name", i,
               IF v = "__ALL__"
               THEN replaceExerciseWithAll(i, ex.category, ex.type,
                        IF isCardio THEN "-" ELSE ex.group, names)
               ELSE updateExercise(i, [name |-> v]))

\* the upper bound the input of an exercise field clamps to
ExFieldMax(k) == IF k = "sets" THEN 1000 ELSE 10000

\* the Weight, Sets, Reps inputs (not rendered for Cardio) and the Duration
\* input of row i; x is Number(e.target.value)
SetExerciseNumber(i, k, x) ==
    /\ i \in ExRows
    /\ k \in ExScalarKeys
    /\ k = "duration" \/ Exercises(activeDay)[i + 1].category # "Cardio"
    /\ ExerciseEdit("exerciseNumber", i,
         updateExercise(i, [f \in {k} |-> clamp(OrZero(x), 0, ExFieldMax(k))]))

-----------------------------------------------------------------------------
(* The application *)

Next ==
    \/ LoadEffect
    \/ MountSaveEffect
    \/ MountRender
    \/ \E i \in Rows : SelectDay(i)
    \/ \E i \in Rows : ArmDelete(i)
    \/ \E i \in Rows : CancelDelete(i)
    \/ \E i \in Rows : ConfirmDelete(i)
    \/ addNewDay
    \/ \E v \in TypedDates : SetDate(v)
    \/ \E k \in TypedFields, x \in TypedNumbers : SetField(k, x)
    \/ \E x \in TypedNumbers : GoalWeightInput(x)
    \/ \E x \in TypedNumbers : TargetCaloriesInput(x)
    \/ addExercise
    \/ \E i \in ExRows : RemoveExercise(i)
    \/ \E i \in ExRows, c \in TypedCategories : SelectCategory(i, c)
    \/ \E i \in ExRows, v \in TypedTypes : SelectType(i, v)
    \/ \E i \in ExRows, v \in TypedGroups : SelectGroup(i, v)
    \/ \E i \in ExRows, v \in TypedNames : SelectName(i, v)
    \/ \E i \in ExRows, k \in TypedExFields, x \in TypedNumbers :
          SetExerciseNumber(i, k, x)
    \/ \E k \in 1..Len(ImportFiles) : importJSON(k)
    \/ \E r \in readers : ReaderOnLoad(r)

Spec == Init /\ [][Next]_vars

\* the text of the Blob exportJSON offers for download
exportJSON == stringify(state)

-----------------------------------------------------------------------------
(* computeMacros on its own: the arguments are drawn at the start and the   *)
(* one step is the call                                                     *)

MacroWeights == (-2..40) \cup {120, 150, 185, 200}
MacroCalories == (-2..80) \cup {1000, 1600, 1800, 2200}

InitMacro ==
    /\ today = 1
    /\ state = defaultState
    /\ activeIdx = 0
    /\ deleteConfirmIdx = NoIdx
    /\ slot = NoText
    /\ readers = {}
    /\ queue = <<>>
    /\ pc = "call"
    /\ alerted = FALSE
    /\ saveError = FALSE
    /\ budget = 0
    /\ ev \in {<<"args", g, c>> : g \in MacroWeights, c \in MacroCalories}
    /\ macroOut = NoMacros

CallComputeMacros ==
    /\ pc = "call"
    /\ macroOut' = computeMacros(ev[2], ev[3])
    /\ pc' = "returned"
    /\ UNCHANGED <<state, activeIdx, deleteConfirmIdx, slot, readers, queue,
                   today, alerted, saveError, budget, ev>>

NextMacro == CallComputeMacros

SpecMacro == InitMacro /\ [][NextMacro]_vars

-----------------------------------------------------------------------------
(* The numeric inputs on their own: the page is mounted on an empty slot    *)
(* and every numeric input takes every kind of typed number                 *)

InitInputs ==
    /\ today = 1
    /\ state = defaultState
    /\ activeIdx = 0
    /\ deleteConfirmIdx = NoIdx
    /\ slot = stringify(defaultState)
    /\ readers = {}
    /\ queue = <<>>
    /\ pc = "ready"
    /\ alerted = FALSE
    /\ saveError = FALSE
    /\ budget = MaxEvents
    /\ ev = <<"init", 0, 0>>
    /\ macroOut = NoMacros

NextInputs ==
    \/ addExercise
    \/ \E k \in ScalarKeys, x \in NumberInputs : SetField(k, x)
    \/ \E i \in ExRows, k \in ExScalarKeys, x \in NumberInputs :
          SetExerciseNumber(i, k, x)
    \/ \E x \in NumberInputs : GoalWeightInput(x)
    \/ \E x \in NumberInputs : TargetCaloriesInput(x)

SpecInputs == InitInputs /\ [][NextInputs]_vars

-----------------------------------------------------------------------------
(* The exercise editor on its own: the page is mounted on an empty slot,    *)
(* the active day has no exercises, and only the exercise rows are used     *)

\* the edits of exercise rows in one behaviour
MaxExerciseEdits == 5

\* every option of the four selects
AllCategories == {""} \cup Elems(ObjectKeys(EXERCISE_TREE))
AllTypes == {""} \cup UNION {Elems(getTypes(c)) : c \in AllCategories}
AllGroups ==
    {""} \cup UNION {Elems(getGroups(c, t)) : c \in AllCategories, t \in AllTypes}
AllNames ==
    {"", "__ALL__"} \cup
    UNION {Elems(getExercises(c, t, g)) :
              c \in AllCategories, t \in AllTypes, g \in AllGroups}

InitExercise ==
    /\ today = 1
    /\ state = defaultState
    /\ activeIdx = 0
    /\ deleteConfirmIdx = NoIdx
    /\ slot = stringify(defaultState)
    /\ readers = {}
    /\ queue = <<>>
    /\ pc = "ready"
    /\ alerted = FALSE
    /\ saveError = FALSE
    /\ budget = MaxExerciseEdits
    /\ ev = <<"init", 0, 0>>
    /\ macroOut = NoMacros

NextExercise ==
    \/ addExercise
    \/ \E i \in ExRows : RemoveExercise(i)
    \/ \E i \in ExRows, c \in AllCategories : SelectCategory(i, c)
    \/ \E i \in ExRows, v \in AllTypes : SelectType(i, v)
    \/ \E i \in ExRows, v \in AllGroups : SelectGroup(i, v)
    \/ \E i \in ExRows, v \in AllNames : SelectName(i, v)
    \/ \E i \in ExRows, k \in TypedExFields, x \in TypedNumbers :
          SetExerciseNumber(i, k, x)

SpecExercise == InitExercise /\ [][NextExercise]_vars

-----------------------------------------------------------------------------
(* The catalog lookups on their own: the three keys are drawn at the start  *)
(* and the one step makes the three calls                                   *)

\* the keys of the tree at any level, the empty string (an unset key is
\* falsy like it), a key the tree does not have, and the inherited ones
CatalogKeys == AllCategories \cup AllTypes \cup AllGroups \cup {"Yoga"}
                  \cup InheritedKeys

InitCatalog ==
    /\ today = 1
    /\ state = defaultState
    /\ activeIdx = 0
    /\ deleteConfirmIdx = NoIdx
    /\ slot = NoText
    /\ readers = {}
    /\ queue = <<>>
    /\ pc = "lookup"
    /\ alerted = FALSE
    /\ saveError = FALSE
    /\ budget = 0
    /\ ev \in CatalogKeys \X CatalogKeys \X CatalogKeys
    /\ macroOut = NoMacros

\* macroOut takes what the three lookups return for the keys in ev
CallLookups ==
    /\ pc = "lookup"
    /\ macroOut' = [types |-> getTypes(ev[1]),
                    groups |-> getGroups(ev[1], ev[2]),
                    names |-> getExercises(ev[1], ev[2], ev[3])]
    /\ pc' = "found"
    /\ UNCHANGED <<state, activeIdx, deleteConfirmIdx, slot, readers, queue,
                   today, alerted, saveError, budget, ev>>

NextCatalog == CallLookups

SpecCatalog == InitCatalog /\ [][NextCatalog]_vars

-----------------------------------------------------------------------------
(* Properties *)

\* the record emptyDay builds for today, written out
FreshDay ==
    [date |-> today, calories |-> EmptyStr, protein |-> EmptyStr,
     carbs |-> EmptyStr, fat |-> EmptyStr, exercises |-> <<>>]

\* C1: in every reachable state the days list holds at least one record, and
\* right after the Confirm click that deleted the only remaining record the
\* list is exactly one fresh empty record dated today.
C1_DaysNeverEmpty ==
    /\ Len(state.days) >= 1
    /\ (ev[1] = "confirm" /\ ev[3] = 1) => state.days = <<FreshDay>>

\* the only remaining record was just deleted
C1_Witness == ev[1] = "confirm" /\ ev[3] = 1 /\ state.days = <<FreshDay>>

\* C2: deletion takes two steps.  A trash click on row i only arms the flag
\* for i (state and active index unchanged); a Confirm click on row i happens
\* only while the flag is armed for i and returns the flag to idle; and a
\* step of a user handler that shortens the list is such a Confirm click and
\* removes exactly row i.
C2_TwoStepDelete ==
    [][/\ ev'[1] = "trash" =>
            /\ deleteConfirmIdx' = ev'[2]
            /\ state' = state
            /\ activeIdx' = activeIdx
       /\ ev'[1] = "confirm" =>
            /\ deleteConfirmIdx = ev'[2]
            /\ deleteConfirmIdx' = NoIdx
       /\ (ev'[1] \notin {"onload", "render"}
             /\ Len(state'.days) < Len(state.days)) =>
            /\ ev'[1] = "confirm"
            /\ deleteConfirmIdx = ev'[2]
            /\ Len(state'.days) = Len(state.days) - 1
            /\ \A j \in 1..Len(state'.days) :
                  state'.days[j] = state.days[IF j <= ev'[2] THEN j ELSE j + 1]
      ]_vars

\* a Confirm click removed a record of a longer list and left the flag idle
C2_Witness ==
    ev[1] = "confirm" /\ ev[3] >= 2 /\ deleteConfirmIdx = NoIdx
        /\ Len(state.days) = ev[3] - 1

\* C3: while a record is armed, a Cancel click and a click on any row of the
\* list both disarm the flag and leave the days list unchanged.
C3_SelectOrCancelDisarms ==
    [][(deleteConfirmIdx # NoIdx /\ ev'[1] \in {"cancel", "selectDay"}) =>
            (deleteConfirmIdx' = NoIdx /\ state'.days = state.days)]_vars

\* a file's text parses and has a non-empty days sequence
HasDays(text) ==
    text.kind = "json" /\ "days" \in DOMAIN text.doc /\ text.doc.days # <<>>

\* C4: the load callback of an import either replaces the whole state (days
\* exactly the imported days, targets the defaults overlaid by the imported
\* targets, active index 0) or, when the text does not parse or has no
\* non-empty days, leaves days, targets and the active index as they were,
\* whatever happened between the file's selection and its load.
C4_ImportAtomicSwap ==
    [][ev'[1] = "onload" =>
        LET text == ImportFiles[ev'[2]]
        IN IF HasDays(text)
           THEN /\ DOMAIN state' = {"targets", "days"}
                /\ state'.days = text.doc.days
                /\ state'.targets =
                     [k \in DOMAIN defaultTargets |->
                        IF "targets" \in DOMAIN text.doc
                              /\ k \in DOMAIN text.doc.targets
                        THEN text.doc.targets[k]
                        ELSE defaultTargets[k]]
                /\ activeIdx' = 0
           ELSE state' = state /\ activeIdx' = activeIdx]_vars

\* a valid file was loaded after the state had changed since its selection
C4_Witness ==
    /\ ev[1] = "onload" /\ ev[3] = 1
    /\ HasDays(ImportFiles[ev[2]])
    /\ state.days = ImportFiles[ev[2]].doc.days

\* C5: every import that fails, by a text that does not parse or by a
\* document whose days are missing or empty, raises an alert.
C5_FailedImportAlerts ==
    (ev[1] = "onload" /\ ~HasDays(ImportFiles[ev[2]])) => alerted

\* C6: exporting any reachable state and importing the exported text gives
\* back the same targets and the same days.
C6_ExportImportRoundTrip ==
    LET text == exportJSON
    IN /\ HasDays(text)
       /\ ImportedState(text.doc).targets = state.targets
       /\ ImportedState(text.doc).days = state.days

\* a state made by an import of two days and a field edit after it
C6_Witness ==
    /\ ev[1] = "setField"
    /\ Len(state.days) = 2
    /\ state.targets # defaultTargets
    /\ ImportedState(exportJSON.doc) = state

\* C7: a step that changes state and whose write succeeds leaves the
\* serialisation of the new state in the slot; one whose write throws leaves
\* the slot as it was and state as the handler set it (a New Day click still
\* prepends its record).
C7_PersistenceFollowsState ==
    [][/\ (state' # state /\ ~saveError') => slot' = stringify(state')
       /\ (state' # state /\ saveError') => slot' = slot
       /\ (ev'[1] = "addNewDay" /\ saveError') =>
             state'.days = <<FreshDay>> \o state.days]_vars

\* a write threw: the slot lags behind the state in memory
C7_Witness == pc = "ready" /\ saveError /\ slot # stringify(state)

C8Range == (-2..2) \cup {150, 1800}

\* C8: computeMacros returns null exactly when one of its arguments is zero,
\* and a recompute with such an argument changes neither targets nor days.
C8_NullSkipsUpdate ==
    [][/\ \A g \in C8Range, c \in C8Range :
             (computeMacros(g, c) = NoMacros) <=> (g = 0 \/ c = 0)
       /\ (ev'[1] \in {"goalWeight", "targetCalories"}
             /\ (ev'[2] = 0 \/ ev'[3] = 0)) => state' = state]_vars

\* a goal weight that is not a number was typed: recalcMacros got 0
C8_Witness == ev[1] = "goalWeight" /\ ev[2] = 0

\* r is num/den rounded to the nearest integer, halves up (den > 0)
IsNearest(r, num, den) ==
    2 * den * r - den <= 2 * num /\ 2 * num < 2 * den * r + den

\* C9: for non-zero arguments computeMacros returns the calories, protein =
\* goalWeight, fat = (0.25 calories)/9 rounded and carbs =
\* (calories - 4 goalWeight - 0.25 calories)/4 rounded and floored at 0.
C9_MacroFormula ==
    pc = "returned" =>
        LET g == ev[2]
            c == ev[3]
            m == macroOut
        IN (g # 0 /\ c # 0) =>
             /\ m # NoMacros
             /\ m.calories = c
             /\ m.protein = g
             /\ IsNearest(m.fat, 25 * c, 900)
             /\ m.carbs >= 0
             /\ IF 2 * (100 * c - 400 * g - 25 * c) < 400
                THEN m.carbs = 0
                ELSE IsNearest(m.carbs, 100 * c - 400 * g - 25 * c, 400)
             /\ (g = 150 /\ c = 1800) =>
                   m.protein = 150 /\ m.fat = 50 /\ m.carbs = 188
             /\ (g = 120 /\ c = 1600) =>
                   m.protein = 120 /\ m.fat = 44 /\ m.carbs = 180

\* protein and fat calories exceed the total: carbs is floored at 0
C9_Witness ==
    pc = "returned" /\ ev[2] = 200 /\ ev[3] = 1000 /\ macroOut.carbs = 0

\* C10: in every reachable state targets.protein = targets.goalWeight,
\* targets.fat is 0.25 targets.calories / 9 rounded, and targets.carbs >= 0.
C10_TargetsInvariant ==
    /\ state.targets.protein = state.targets.goalWeight
    /\ IsNearest(state.targets.fat, 25 * state.targets.calories, 900)
    /\ state.targets.carbs >= 0

\* v is the empty string or a number of 0..hi
EmptyOrWithin(v, hi) == v = EmptyStr \/ (v.t = "num" /\ v.n >= 0 /\ v.n <= hi)

\* C11: after any sequence of edits every numeric field behind an input is
\* empty or a non-negative number within its bound: day calories within
\* 0..100000, day protein, carbs, fat and exercise weight, reps, duration
\* within 0..10000, exercise sets within 0..1000, and goal weight and target
\* calories non-negative; a negative or non-numeric goal weight or target
\* calories is stored as 0.
C11_InputsClamped ==
    /\ \A d \in 1..Len(state.days) :
          /\ EmptyOrWithin(state.days[d].calories, 100000)
          /\ \A k \in {"protein", "carbs", "fat"} :
                EmptyOrWithin(state.days[d][k], 10000)
          /\ \A e \in 1..Len(state.days[d].exercises) :
                /\ EmptyOrWithin(state.days[d].exercises[e].sets, 1000)
                /\ \A k \in {"weight", "reps", "duration"} :
                      EmptyOrWithin(state.days[d].exercises[e][k], 10000)
    /\ state.targets.goalWeight >= 0
    /\ state.targets.calories >= 0
    /\ (ev[1] = "goalWeight" /\ ev[2] <= 0) => state.targets.goalWeight = 0
    /\ (ev[1] = "targetCalories" /\ ev[3] <= 0) => state.targets.calories = 0

\* the exercise entries of the active day before and after a step
ExsBefore == Exercises(state.days[activeIdx + 1])
ExsAfter == Exercises(state'.days[activeIdx + 1])

\* a step that leaves the active index, the targets, every other day and
\* every field of the active day but its exercises as they were
OnlyExercisesChange ==
    /\ activeIdx' = activeIdx
    /\ state'.targets = state.targets
    /\ Len(state'.days) = Len(state.days)
    /\ \A d \in 1..Len(state.days) :
          d # activeIdx + 1 => state'.days[d] = state.days[d]
    /\ \A k \in {"date", "calories", "protein", "carbs", "fat"} :
          state'.days[activeIdx + 1][k] = state.days[activeIdx + 1][k]

\* a step that changes no exercise entry of the active day but entry i
OnlyEntryChanges(i) ==
    /\ OnlyExercisesChange
    /\ Len(ExsAfter) = Len(ExsBefore)
    /\ \A j \in 1..Len(ExsBefore) : j # i => ExsAfter[j] = ExsBefore[j]

\* C12: on exercise row i, a change of Category sets the new category and
\* resets type and name to empty and group to empty, or to "-" when the new
\* category is Cardio; a change of Type sets the type and resets group ("-"
\* for a Cardio entry, else empty) and name; a change of Group sets the group
\* and resets name only, leaving category, type, weight, sets, reps and
\* duration; in all three every other entry and every other day is unchanged.
C12_CascadingSelection ==
    [][ev'[1] \in {"category", "type", "group"} =>
        LET i == ev'[2] + 1
            e == ExsBefore[i]
            f == ExsAfter[i]
        IN /\ OnlyEntryChanges(i)
           /\ f.name = ""
           /\ f.duration = e.duration
           /\ ev'[1] = "category" =>
                 /\ f.category # e.category
                 /\ f.type = ""
                 /\ f.group = IF f.category = "Cardio" THEN "-" ELSE ""
           /\ ev'[1] = "type" =>
                 /\ f.category = e.category
                 /\ f.type # e.type
                 /\ f.group = IF e.category = "Cardio" THEN "-" ELSE ""
                 /\ \A k \in {"weight", "sets", "reps"} : f[k] = e[k]
           /\ ev'[1] = "group" =>
                 /\ f.category = e.category
                 /\ f.type = e.type
                 /\ f.group # e.group
                 /\ \A k \in {"weight", "sets", "reps"} : f[k] = e[k]
       ]_vars

\* the group of a named entry with a weight, between two other entries, was
\* changed: its name is reset, its weight and duration are kept
C12_Witness ==
    /\ ev[1] = "group"
    /\ ev[2] = 1
    /\ Len(Exercises(activeDay)) = 3
    /\ Exercises(activeDay)[2] =
          [ExBicep EXCEPT !.group = "Back", !.name = ""]

\* C13: choosing the select-all option on entry i of the active day, for a
\* category/type/group with N names, replaces that entry by N entries at
\* positions i..i+N-1, one per name in catalog order, each with the same
\* category, type and group and empty weight, sets, reps and duration; the
\* entries before i stay, the entries after i follow in their order, the
\* length grows by N - 1, and every other day is unchanged.
C13_ExpandToAll ==
    [][ev'[1] = "nameAll" =>
        LET i == ev'[2] + 1
            e == ExsBefore[i]
            names == getExercises(e.category, e.type, e.group)
            N == Len(names)
        IN /\ OnlyExercisesChange
           /\ N > 1
           /\ Len(ExsAfter) = Len(ExsBefore) + N - 1
           /\ \A j \in 1..(i - 1) : ExsAfter[j] = ExsBefore[j]
           /\ \A n \in 1..N :
                 ExsAfter[i + n - 1] =
                    [category |-> e.category, type |-> e.type,
                     group |-> e.group, name |-> names[n],
                     weight |-> EmptyStr, sets |-> EmptyStr,
                     reps |-> EmptyStr, duration |-> EmptyStr]
           /\ \A j \in (i + 1)..Len(ExsBefore) :
                 ExsAfter[j + N - 1] = ExsBefore[j]
       ]_vars

\* the middle one of three entries was expanded to the three Bicep names
C13_Witness ==
    /\ ev[1] = "nameAll"
    /\ ev[2] = 1
    /\ Len(Exercises(activeDay)) = 5
    /\ Exercises(activeDay)[1] = ExCardio
    /\ Exercises(activeDay)[3].name = "Dumbbell hammer curl"
    /\ Exercises(activeDay)[5] = ExChest

\* C14: the lookups return the tree's entries in insertion order for keys
\* the tree has, and the empty sequence whenever a key is empty or is not in
\* the tree at its level; every Cardio type has the one group "-",
\* (Cardio, LISS, "-") has Treadmill, Stair Master, Elliptical, and
\* (Strength, Pull) has the groups Back, Bicep.
C14_LookupsTotal ==
    pc = "found" =>
        LET cat == ev[1]
            type == ev[2]
            group == ev[3]
            r == macroOut
        IN /\ cat = "Cardio" => r.types = <<"LISS", "HIIT">>
           /\ cat = "Strength" => r.types = <<"Pull", "Push", "Legs">>
           /\ cat \notin {"Cardio", "Strength"} => r.types = <<>>
           /\ type \notin Elems(r.types) => r.groups = <<>>
           /\ (cat = "Cardio" /\ type \in {"LISS", "HIIT"}) => r.groups = <<"-">>
           /\ (cat = "Strength" /\ type = "Pull") => r.groups = <<"Back", "Bicep">>
           /\ (cat = "Strength" /\ type = "Push") =>
                 r.groups = <<"Chest", "Shoulders", "Triceps">>
           /\ (cat = "Strength" /\ type = "Legs") =>
                 r.groups = <<"Legs + Glutes + Calves">>
           /\ group \notin Elems(r.groups) => r.names = <<>>
           /\ group \in Elems(r.groups) =>
                 r.names = At(At(At(EXERCISE_TREE, cat), type), group)
           /\ (cat = "Cardio" /\ type = "LISS" /\ group = "-") =>
                 r.names = <<"Treadmill", "Stair Master", "Elliptical">>

\* every Cardio entry of the days has the group "-" and no weight, sets or
\* reps, and every named entry has a name of its category, type and group
CardioEntriesClean(days) ==
    \A d \in 1..Len(days) : \A n \in 1..Len(Exercises(days[d])) :
        LET e == Exercises(days[d])[n]
        IN /\ e.category = "Cardio" =>
                 /\ e.group = "-"
                 /\ e.weight = EmptyStr
                 /\ e.sets = EmptyStr
                 /\ e.reps = EmptyStr
           /\ e.name # "" =>
                 e.name \in Elems(getExercises(e.category, e.type, e.group))

\* C15: starting from an empty exercise list, after any sequence of add,
\* category, type, group and name selections, numeric edits, expand-to-all
\* and remove steps, every Cardio entry has the group "-" and empty weight,
\* sets and reps, every named entry has its name among the names of its
\* category, type and group, and a category change keeps the duration.
C15_CardioEntries ==
    [][/\ CardioEntriesClean(state'.days)
       /\ ev'[1] = "category" =>
             ExsAfter[ev'[2] + 1].duration = ExsBefore[ev'[2] + 1].duration
      ]_vars

\* an entry with a duration was made a Cardio entry
C15_Witness ==
    /\ ev[1] = "category"
    /\ Len(Exercises(activeDay)) >= 1
    /\ Exercises(activeDay)[1].category = "Cardio"
    /\ Exercises(activeDay)[1].duration = Num(7)
    /\ Exercises(activeDay)[1].sets = EmptyStr

\* what the document DocA stands for once loaded: its day with the missing
\* fields empty, the defaults overlaid by its two targets
StoredDays ==
    << [date |-> 3, calories |-> Num(7), protein |-> EmptyStr,
        carbs |-> EmptyStr, fat |-> EmptyStr, exercises |-> <<>>] >>
StoredTargets ==
    [calories |-> 2000, protein |-> 130, carbs |-> 160, fat |-> 60,
     goalWeight |-> 180]

\* C16: when the slot holds a valid document with days as the page opens
\* (the first run of the load effect queued its state), then after the
\* render that ends the mount the days are the stored days with missing
\* fields defaulted, the targets are the defaults overlaid by the stored
\* targets, and, the write succeeding, the slot holds that same data.
C16_StartupKeepsStoredData ==
    [][(ev'[1] = "render" /\ queue # <<>> /\ queue[1] = LoadedState(DocA)) =>
          /\ state'.days = StoredDays
          /\ state'.targets = StoredTargets
          /\ ~saveError' =>
                slot' = TextOf([targets |-> StoredTargets, days |-> StoredDays])
      ]_vars

\* the events of the handlers that edit the active record in place
EditEvents ==
    {"setDate", "setField", "addExercise", "removeExercise", "category",
     "type", "group", "name", "nameAll", "exerciseNumber"}

\* C17: while the pending-delete flag stays set across a step (a new day, an
\* import, a selection, an edit), it is a valid index of the days list and
\* the record at it is the record that was at it before the step, edited at
\* most by an edit of the active record; so a Confirm click removes the
\* record that the trash click armed.
C17_ArmedRecordIdentity ==
    [][(deleteConfirmIdx # NoIdx /\ deleteConfirmIdx' = deleteConfirmIdx) =>
          /\ deleteConfirmIdx < Len(state'.days)
          /\ \/ state'.days[deleteConfirmIdx + 1] = state.days[deleteConfirmIdx + 1]
             \/ /\ ev'[1] \in EditEvents
                /\ activeIdx = deleteConfirmIdx
                /\ Len(state'.days) = Len(state.days)
      ]_vars

\* C18: in every reachable state the active index is an index of the days
\* list, and the list has no hole: every element is a record with a date.
C18_ActiveIndexValid ==
    /\ 0 <= activeIdx
    /\ activeIdx < Len(state.days)
    /\ \A d \in 1..Len(state.days) : "date" \in DOMAIN state.days[d]

\* a record was deleted while the last of three records was active: the
\* last of the two that remain is active
C18_Witness ==
    /\ ev[1] = "confirm"
    /\ ev[3] = 3
    /\ Len(state.days) = 2
    /\ activeIdx = 1

\* C19: a Confirm click on row i removes exactly the record at i and keeps
\* the others with their values and order (the only record is replaced by a
\* fresh one); and when the deleted record is not the active one, the record
\* that was active before is the active record afterwards.
C19_DeleteKeepsActiveRecord ==
    [][ev'[1] = "confirm" =>
        LET i == ev'[2]
        IN /\ Len(state.days) > 1 =>
                 /\ Len(state'.days) = Len(state.days) - 1
                 /\ \A j \in 1..Len(state'.days) :
                       state'.days[j] = state.days[IF j <= i THEN j ELSE j + 1]
           /\ state'.targets = state.targets
           /\ i # activeIdx =>
                 /\ activeIdx' < Len(state'.days)
                 /\ state'.days[activeIdx' + 1] = state.days[activeIdx + 1]
      ]_vars

====
